---- MODULE Spec2Model ----
(***************************************************************************)
(* A model of skill-scout's two programs:                                  *)
(*   "server"  src/server/nlp_service.py   (Flask: /analyze/resume,        *)
(*             /analyze/jd)                                                *)
(*   "app"     src/attached_assets/app_1767956252310.py (Streamlit         *)
(*             screener: resume tab, job-description tab)                  *)
(*                                                                         *)
(* Text is modelled as Python models it: a string is a sequence of         *)
(* one-character strings, ordered by code point.  Scores are Python floats *)
(* in the code; here they are thousandths (0.7 is 700, 1.0 is 1000) in     *)
(* exact arithmetic: the binary rounding of floats is not modelled.        *)
(*                                                                         *)
(* Line 1 of nlp_service.py ("import { Flask, request, jsonify }") is not  *)
(* Python; the model is of the file from line 2 on.                        *)
(***************************************************************************)
EXTENDS Integers, Sequences, FiniteSets, TLC

VARIABLES
    impl,     \* which program runs: "server" or "app"
    csv,      \* the reference dataset on disk
    df,       \* the module-level DataFrame  (nlp_service.py:19, app:29)
    proc,     \* the process: "loading", "serving" or "crashed"
    vocab,    \* outcome of a call of get_all_skills() made while serving
    jd,       \* the job-description request (analyze_jd / tab2)
    rs,       \* the resume requests in flight (analyze_resume / tab1)
    fs        \* /tmp, the directory analyze_resume saves uploads into

vars == <<impl, csv, df, proc, vocab, jd, rs, fs>>

(***************************************************************************)
(* Python strings                                                          *)
(***************************************************************************)

\* The characters of the model in code-point order: space, comma, A-Z, a-z.
Alphabet ==
    << " ", ",",
       "A", "B", "C", "D", "E", "F", "G", "H", "I", "J", "K", "L", "M",
       "N", "O", "P", "Q", "R", "S", "T", "U", "V", "W", "X", "Y", "Z",
       "a", "b", "c", "d", "e", "f", "g", "h", "i", "j", "k", "l", "m",
       "n", "o", "p", "q", "r", "s", "t", "u", "v", "w", "x", "y", "z" >>

Ord(c) == CHOOSE i \in 1..Len(Alphabet) : Alphabet[i] = c

IsUpper(c) == c \in {Alphabet[i] : i \in 3..28}

IsSpace(c) == c = " "

\* str.lower()
LowerChar(c) == IF IsUpper(c) THEN Alphabet[Ord(c) + 26] ELSE c

Lower(s) == [i \in 1..Len(s) |-> LowerChar(s[i])]

\* str.strip(): leading and trailing whitespace removed
Strip(s) ==
    LET keep == {i \in 1..Len(s) : ~IsSpace(s[i])}
    IN  IF keep = {} THEN <<>>
        ELSE SubSeq(s, CHOOSE i \in keep : \A j \in keep : i <= j,
                       CHOOSE i \in keep : \A j \in keep : j <= i)

\* text[a:b] for 0 <= a <= b <= len(text)
Slice(t, a, b) == SubSeq(t, a + 1, b)

\* the offsets (from 0) at which sub occurs in text
Occurrences(t, sub) ==
    {i \in 0..(Len(t) - Len(sub)) : Slice(t, i, i + Len(sub)) = sub}

\* sub in text
Contains(t, sub) == Occurrences(t, sub) # {}

\* text.find(sub): the lowest offset, -1 when there is none
Find(t, sub) ==
    LET occ == Occurrences(t, sub)
    IN  IF occ = {} THEN -1 ELSE CHOOSE i \in occ : \A j \in occ : i <= j

\* text.count(sub): non-overlapping occurrences, scanned from the left
RECURSIVE CountFrom(_, _, _)
CountFrom(t, sub, from) ==
    LET occ == {i \in Occurrences(t, sub) : i >= from}
    IN  IF occ = {} THEN 0
        ELSE LET first == CHOOSE i \in occ : \A j \in occ : i <= j
             IN  1 + CountFrom(t, sub, first + (IF Len(sub) = 0 THEN 1 ELSE Len(sub)))

Count(t, sub) == CountFrom(t, sub, 0)

\* str.split(","): the fields between separators, empty fields kept
RECURSIVE SplitOn(_, _)
SplitOn(s, sep) ==
    LET cut == {i \in 1..Len(s) : s[i] = sep}
    IN  IF cut = {} THEN <<s>>
        ELSE LET i == CHOOSE k \in cut : \A j \in cut : k <= j
             IN  <<SubSeq(s, 1, i - 1)>> \o SplitOn(SubSeq(s, i + 1, Len(s)), sep)

\* str.split(): the maximal runs of non-whitespace characters
RECURSIVE SplitWords(_)
SplitWords(s) ==
    LET t == Strip(s)
        sp == {i \in 1..Len(t) : IsSpace(t[i])}
    IN  IF t = <<>> THEN <<>>
        ELSE IF sp = {} THEN <<t>>
        ELSE LET i == CHOOSE k \in sp : \A j \in sp : k <= j
             IN  <<SubSeq(t, 1, i - 1)>> \o SplitWords(SubSeq(t, i + 1, Len(t)))

\* a < b in Python's string order (lexicographic by code point)
RECURSIVE StrLess(_, _)
StrLess(a, b) ==
    IF b = <<>> THEN FALSE
    ELSE IF a = <<>> THEN TRUE
    ELSE IF a[1] # b[1] THEN Ord(a[1]) < Ord(b[1])
    ELSE StrLess(Tail(a), Tail(b))

\* sorted(S) for a set of strings
RECURSIVE Sorted(_)
Sorted(S) ==
    IF S = {} THEN <<>>
    ELSE LET m == CHOOSE x \in S : \A y \in S : y = x \/ StrLess(x, y)
         IN  <<m>> \o Sorted(S \ {m})

\* " ".join(seq)
RECURSIVE JoinSpace(_)
JoinSpace(seq) ==
    IF seq = <<>> THEN <<>>
    ELSE IF Len(seq) = 1 THEN seq[1]
    ELSE seq[1] \o <<" ">> \o JoinSpace(Tail(seq))

Range(seq) == {seq[i] : i \in 1..Len(seq)}

RECURSIVE Concat(_)
Concat(seqs) == IF seqs = <<>> THEN <<>> ELSE seqs[1] \o Concat(Tail(seqs))

(***************************************************************************)
(* The reference dataset                                                   *)
(***************************************************************************)

Columns == {"job_title", "technical_skills", "soft_skills"}

\* pandas reads an empty cell as NaN (a float, not a string)
NaN == <<"NaN">>

\* str(cell): str(float('nan')) is "nan"
PyStr(cell) == IF cell = NaN THEN <<"n", "a", "n">> ELSE cell

\* Series.str.lower(): NaN stays NaN
SeriesLower(cell) == IF cell = NaN THEN NaN ELSE Lower(cell)

NoTable == [columns |-> {}, rows |-> <<>>]

\* pd.DataFrame(columns=[...]): the empty table the server falls back to
EmptyTable == [columns |-> Columns, rows |-> <<>>]

\* df["job_title"] = df["job_title"].str.lower()
LowerTitles(t) ==
    [t EXCEPT !.rows = [i \in 1..Len(t.rows) |->
        [t.rows[i] EXCEPT !.job_title = SeriesLower(t.rows[i].job_title)]]]

\* a column read from nothing but empty cells is a float column, which has
\* no .str accessor
NoStringTitle(file) ==
    file.rows # <<>> /\ \A i \in 1..Len(file.rows) : file.rows[i].job_title = NaN

\* whether read_csv followed by the title normalisation raises
LoadRaises(file) ==
    \/ ~file.exists
    \/ "job_title" \notin file.columns
    \/ NoStringTitle(file)

\* the table the startup code leaves in df when nothing raises
Loaded(file) == LowerTitles([columns |-> file.columns, rows |-> file.rows])

(***************************************************************************)
(* Vocabulary Builder, Role Skill Resolver, Skill Matcher                  *)
(***************************************************************************)

\* the generator of get_all_skills: s.strip().lower() for s in str(cell).split(",")
CellTokens(cell) ==
    LET parts == SplitOn(PyStr(cell), ",")
    IN  {Lower(Strip(parts[i])) : i \in 1..Len(parts)}

\* the loop over df.iterrows(): set.update per row, for one column
RECURSIVE UpdateAll(_, _)
UpdateAll(rows, col) ==
    IF rows = <<>> THEN {}
    ELSE CellTokens(rows[1][col]) \cup UpdateAll(Tail(rows), col)

\* row["technical_skills"] / row["soft_skills"] raise KeyError on a table
\* without the column; with no rows the loop body never runs
SkillColumnsRaise(t) ==
    t.rows # <<>> /\ ~({"technical_skills", "soft_skills"} \subseteq t.columns)

\* AllSkillsOf without the discard("") of lines 99-100
AllSkillsOfKeepEmpty(t, col) == Sorted(UpdateAll(t.rows, col))

\* the technical (or soft) sequence get_all_skills returns
AllSkillsOf(t, col) == Sorted(UpdateAll(t.rows, col) \ {<<>>})

\* get_all_skills(), both programs
get_all_skills(t) ==
    IF SkillColumnsRaise(t)
    THEN [status |-> "KeyError", tech |-> <<>>, soft |-> <<>>]
    ELSE [status |-> "ok",
          tech |-> AllSkillsOf(t, "technical_skills"),
          soft |-> AllSkillsOf(t, "soft_skills")]

\* the mask df["job_title"].str.contains(job_role, na=False) of the server,
\* as the indices of the rows kept.  The roles of the model hold no regular
\* expression metacharacter, so the pattern match is substring containment.
FilteredRows(t, job_role) ==
    {i \in 1..Len(t.rows) :
        /\ t.rows[i].job_title # NaN
        /\ Contains(t.rows[i].job_title, job_role)}

\* the app's mask has no na=False: a NaN title leaves NaN in the mask and
\* indexing with it raises ValueError
MaskRaises(t) == \E i \in 1..Len(t.rows) : t.rows[i].job_title = NaN

\* tech_skills.extend(str(row[col]).split(",")) over the filtered rows, in
\* table order
RECURSIVE ExtendAll(_, _, _, _)
ExtendAll(t, keep, col, i) ==
    IF i > Len(t.rows) THEN <<>>
    ELSE (IF i \in keep THEN SplitOn(PyStr(t.rows[i][col]), ",") ELSE <<>>)
         \o ExtendAll(t, keep, col, i + 1)

\* sorted(set(s.strip().lower() for s in skills if s.strip()))   (server)
CleanServer(skills) ==
    Sorted({Lower(Strip(skills[i])) : i \in {k \in 1..Len(skills) : Strip(skills[k]) # <<>>}})

\* sorted(set(s.strip().lower() for s in skills))                (app)
CleanApp(skills) ==
    Sorted({Lower(Strip(skills[i])) : i \in 1..Len(skills)})

Clean(program, skills) ==
    IF program = "server" THEN CleanServer(skills) ELSE CleanApp(skills)

\* get_job_skills(job_role) of either program
get_job_skills(program, t, role) ==
    LET job_role == Lower(role)
        keep == FilteredRows(t, job_role)
        tech_skills == Clean(program, ExtendAll(t, keep, "technical_skills", 1))
        soft_skills == Clean(program, ExtendAll(t, keep, "soft_skills", 1))
    IN  IF program = "app" /\ MaskRaises(t)
        THEN [status |-> "ValueError", tech |-> <<>>, soft |-> <<>>, job_text |-> <<>>]
        ELSE IF keep = {}
        THEN [status |-> "ok", tech |-> <<>>, soft |-> <<>>, job_text |-> <<>>]
        ELSE IF SkillColumnsRaise(t)
        THEN [status |-> "KeyError", tech |-> <<>>, soft |-> <<>>, job_text |-> <<>>]
        ELSE [status |-> "ok", tech |-> tech_skills, soft |-> soft_skills,
              job_text |-> JoinSpace(tech_skills \o soft_skills)]

\* the list built by the loop of extract_skills_from_text
RECURSIVE FoundIn(_, _)
FoundIn(text, skill_list) ==
    IF skill_list = <<>> THEN <<>>
    ELSE (IF Contains(text, Lower(skill_list[1])) THEN <<skill_list[1]>> ELSE <<>>)
         \o FoundIn(text, Tail(skill_list))

\* extract_skills_from_text matching the whole technical vocabulary of the
\* dataset instead of the list it is given
extract_skills_from_vocabulary(text, skill_list) ==
    Sorted(Range(FoundIn(text, AllSkillsOf(df, "technical_skills"))))

\* extract_skills_from_text(text, skill_list)
extract_skills_from_text(text, skill_list) == Sorted(Range(FoundIn(text, skill_list)))

(***************************************************************************)
(* Startup, and a call of get_all_skills() on the table it left            *)
(***************************************************************************)

Impls == {"server", "app"}

NoVocab == [status |-> "none", tech |-> <<>>, soft |-> <<>>]

JdIdle == [pc |-> "idle"]

NoFiles == [x \in {} |-> x]

\* module startup: nlp_service.py 22-30 (any failure is logged and df becomes
\* the empty table), app 25-31 (nothing is caught: the script dies)
LoadDataset ==
    /\ proc = "loading"
    /\ IF LoadRaises(csv)
       THEN IF impl = "server"
            THEN df' = EmptyTable /\ proc' = "serving"
            ELSE df' = df /\ proc' = "crashed"
       ELSE df' = Loaded(csv) /\ proc' = "serving"
    /\ UNCHANGED <<impl, csv, vocab, jd, rs, fs>>

\* a request calls get_all_skills() on the table startup left
CallGetAllSkills ==
    /\ proc = "serving"
    /\ vocab = NoVocab
    /\ vocab' = get_all_skills(df)
    /\ UNCHANGED <<impl, csv, df, proc, jd, rs, fs>>

\* the rows the dataset files of the model are made of
DataRows ==
    { [job_title |-> <<"Q", "A">>,
       technical_skills |-> <<"s", "q", "l", ",", " ", "G", "o">>,
       soft_skills |-> <<"G", "r", "i", "t">>],
      [job_title |-> <<"D", "e", "v">>,
       technical_skills |-> <<" ", "g", "o", " ", ",", "s", "q", "l", ",", ",", "g", "o">>,
       soft_skills |-> <<"t", "a", "c", "t", ",", " ", "g", "r", "i", "t", " ">>],
      [job_title |-> <<"d", "e", "v", " ", "o", "p", "s">>,
       technical_skills |-> NaN,
       soft_skills |-> <<",">>],
      [job_title |-> NaN,
       technical_skills |-> <<" ">>,
       soft_skills |-> <<"T", "a", "c", "t">>],
      [job_title |-> <<"Q", "A", " ", "l", "e", "a", "d">>,
       technical_skills |-> <<"c", " ", "b", ",", "a">>,
       soft_skills |-> <<"g", "o">>] }

MaxRows == 2

RowSeqs(n) == UNION {[1..k -> DataRows] : k \in 0..n}

CsvFiles ==
    {[exists |-> FALSE, columns |-> {}, rows |-> <<>>]}
    \cup {[exists |-> TRUE, columns |-> c, rows |-> r] :
            c \in SUBSET Columns, r \in RowSeqs(MaxRows)}

InitData ==
    /\ impl \in Impls
    /\ csv \in CsvFiles
    /\ df = NoTable
    /\ proc = "loading"
    /\ vocab = NoVocab
    /\ jd = JdIdle
    /\ rs = <<>>
    /\ fs = NoFiles

NextData == LoadDataset \/ CallGetAllSkills

SpecData == InitData /\ [][NextData]_vars

(***************************************************************************)
(* Claims about the dataset and the vocabulary (SpecData)                  *)
(***************************************************************************)

NoDuplicates(seq) == \A i, j \in 1..Len(seq) : seq[i] = seq[j] => i = j

Ascending(seq) == \A i \in 1..(Len(seq) - 1) : StrLess(seq[i], seq[i + 1])

LowerTrimmed(tok) == Lower(tok) = tok /\ Strip(tok) = tok

WellFormedVocabulary(seq) ==
    /\ <<>> \notin Range(seq)
    /\ NoDuplicates(seq)
    /\ \A tok \in Range(seq) : LowerTrimmed(tok)
    /\ Ascending(seq)

RowOrders(n) == {p \in [1..n -> 1..n] : \A i, j \in 1..n : p[i] = p[j] => i = j}

Reordered(t, p) == [t EXCEPT !.rows = [i \in 1..Len(t.rows) |-> t.rows[p[i]]]]

\* C6: each sequence get_all_skills returns has no empty string and no
\* duplicate, holds only lower-cased trimmed tokens, is in ascending order,
\* and is the same for every order of the table's rows.
C6_VocabularyWellFormed ==
    vocab.status = "ok" =>
        /\ WellFormedVocabulary(vocab.tech)
        /\ WellFormedVocabulary(vocab.soft)
        /\ \A p \in RowOrders(Len(df.rows)) : get_all_skills(Reordered(df, p)) = vocab

\* a table of two rows whose technical column holds an empty token, an
\* upper-case token and tokens out of order, with its vocabulary built
C6_Witness ==
    /\ vocab.status = "ok"
    /\ Len(df.rows) >= 2
    /\ Len(vocab.tech) >= 2
    /\ <<>> \in UpdateAll(df.rows, "technical_skills")
    /\ \E i \in 1..Len(df.rows) :
          \E c \in Range(PyStr(df.rows[i].technical_skills)) : IsUpper(c)
    /\ df.rows[1].technical_skills # df.rows[2].technical_skills

\* C9: a dataset file that lacks a required column never leads to a serving
\* process (startup fails instead), and is never replaced by an empty table.
C9_StartupFailsOnMissingColumn ==
    (csv.exists /\ ~(Columns \subseteq csv.columns)) =>
        /\ proc # "serving"
        /\ df # EmptyTable

(***************************************************************************)
(* Importance Scorer: analyze_jd (server), extract_mandatory_skills and    *)
(* the job-description tab (app)                                           *)
(***************************************************************************)

Min(a, b) == IF a <= b THEN a ELSE b

Max(a, b) == IF a >= b THEN a ELSE b

\* score * boost for a boost written in tenths (1.2 is 12)
Times(score, tenths) == (score * tenths) \div 10

\* keywords of analyze_jd (nlp_service.py:194), in dict order
KeywordsServer ==
    << [keyword |-> <<"r", "e", "q", "u", "i", "r", "e", "d">>, boost |-> 12],
       [keyword |-> <<"m", "u", "s", "t", " ", "h", "a", "v", "e">>, boost |-> 13],
       [keyword |-> <<"m", "a", "n", "d", "a", "t", "o", "r", "y">>, boost |-> 14] >>

\* importance_keywords of extract_mandatory_skills (app 153-162), in dict order
KeywordsApp ==
    KeywordsServer \o
    << [keyword |-> <<"e", "s", "s", "e", "n", "t", "i", "a", "l">>, boost |-> 12],
       [keyword |-> <<"c", "r", "i", "t", "i", "c", "a", "l">>, boost |-> 13],
       [keyword |-> <<"p", "r", "e", "f", "e", "r", "r", "e", "d">>, boost |-> 8],
       [keyword |-> <<"n", "i", "c", "e", " ", "t", "o", " ", "h", "a", "v", "e">>, boost |-> 6],
       [keyword |-> <<"o", "p", "t", "i", "o", "n", "a", "l">>, boost |-> 5] >>

Keywords(program) == IF program = "server" THEN KeywordsServer ELSE KeywordsApp

\* characters of context taken on each side of the skill's first occurrence
ContextWindow == 50

\* extract_mandatory_skills returns at once below this stripped length
MinDescription == 10

RECURSIVE SumCounts(_, _)
SumCounts(text, words) ==
    IF words = <<>> THEN 0
    ELSE Count(text, words[1]) + SumCounts(text, Tail(words))

\* the base score without the min(score, 1.0)
BaseScoreUnclamped(text, skill) ==
    LET skill_lower == Lower(skill)
        exact_count == Count(text, skill_lower)
        word_matches == SumCounts(text, SplitWords(skill_lower))
    IN  IF exact_count > 0 THEN 700 + (exact_count * 100) ELSE word_matches * 50

\* the score the first loop stores for one skill
BaseScore(text, skill) == Min(BaseScoreUnclamped(text, skill), 1000)

\* the first loop: skill_scores[skill] for every skill of all_skills
BaseScores(text, all_skills) ==
    [skill \in Range(all_skills) |-> BaseScore(text, skill)]

\* the context string cut around the first occurrence of the skill
Context(text, skill) ==
    LET idx == Find(text, Lower(skill))
    IN  Slice(text, Max(0, idx - ContextWindow),
                    Min(Len(text), idx + Len(skill) + ContextWindow))

\* the inner for ... break: the first keyword of the table found in context
RECURSIVE FirstKeyword(_, _, _)
FirstKeyword(context, table, i) ==
    IF i > Len(table) THEN 0
    ELSE IF Contains(context, table[i].keyword) THEN i
    ELSE FirstKeyword(context, table, i + 1)

\* one pass of the second loop's body for one skill, without the re-clamp
BoostOneUnclamped(program, text, scores, skill) ==
    IF ~Contains(text, Lower(skill)) THEN scores
    ELSE LET k == FirstKeyword(Context(text, skill), Keywords(program), 1)
         IN  IF k = 0 THEN scores
             ELSE [scores EXCEPT ![skill] = Times(scores[skill], Keywords(program)[k].boost)]

\* one pass of the second loop's body for one skill
BoostOne(program, text, scores, skill) ==
    IF ~Contains(text, Lower(skill)) THEN scores
    ELSE LET k == FirstKeyword(Context(text, skill), Keywords(program), 1)
         IN  IF k = 0 THEN scores
             ELSE [scores EXCEPT
                     ![skill] = Min(Times(scores[skill], Keywords(program)[k].boost), 1000)]

\* the second loop: for skill in all_skills, in list order
RECURSIVE BoostLoop(_, _, _, _)
BoostLoop(program, text, scores, skills) ==
    IF skills = <<>> THEN scores
    ELSE BoostLoop(program, text, BoostOne(program, text, scores, skills[1]), Tail(skills))

\* the third loop: the (skill, score) items kept, in all_skills order, for
\* the technical list (tech = TRUE) or the soft list
RECURSIVE Kept(_, _, _, _, _)
Kept(skills, scores, threshold, all_tech, tech) ==
    IF skills = <<>> THEN <<>>
    ELSE LET skill == skills[1]
             score == scores[skill]
             here == /\ 2 * score >= threshold
                     /\ (skill \in Range(all_tech)) = tech
         IN  (IF here THEN <<[skill |-> skill, score |-> score]>> ELSE <<>>)
             \o Kept(Tail(skills), scores, threshold, all_tech, tech)

\* sorted(items, key=score, reverse=True): stable, equal scores keep their order
RECURSIVE SortByScore(_)
SortByScore(items) ==
    IF items = <<>> THEN <<>>
    ELSE LET rest == SortByScore(SubSeq(items, 1, Len(items) - 1))
             x == items[Len(items)]
             before == {i \in 1..Len(rest) : rest[i].score >= x.score}
             n == IF before = {} THEN 0 ELSE CHOOSE i \in before : \A j \in before : j <= i
         IN  SubSeq(rest, 1, n) \o <<x>> \o SubSeq(rest, n + 1, Len(rest))

NoPriority == [must_have |-> <<>>, good_to_have |-> <<>>, nice_to_have |-> <<>>]

JdRequest(description, threshold, top_n) ==
    [pc |-> "received", job_description |-> description, threshold |-> threshold,
     top_n |-> top_n, all_tech |-> <<>>, all_soft |-> <<>>, skill_scores |-> <<>>,
     found_tech |-> <<>>, found_soft |-> <<>>, status |-> 0,
     mandatory_tech_scored |-> <<>>, mandatory_soft_scored |-> <<>>,
     priority_tech |-> NoPriority, priority_soft |-> NoPriority, export_data |-> <<>>]

all_skills == jd.all_tech \o jd.all_soft

job_desc_lower == Lower(jd.job_description)

\* whether the handler returns before the scoring loops, and with what
\* (nlp_service.py 172-173; app 309 and 119-120)
EarlyReturn(program, description) ==
    IF program = "server"
    THEN IF description = <<>> THEN 400 ELSE 0
    ELSE IF description = <<>> THEN 1
         ELSE IF Len(Strip(description)) < MinDescription THEN 2 ELSE 0

\* entry: the checks before the loops, then get_all_skills()
JdStart ==
    /\ proc = "serving"
    /\ jd.pc = "received"
    /\ LET early == EarlyReturn(impl, jd.job_description)
           v == get_all_skills(df)
       IN  IF early = 400 THEN jd' = [jd EXCEPT !.pc = "done", !.status = 400]
           ELSE IF early = 1 THEN jd' = [jd EXCEPT !.pc = "done"]
           ELSE IF early = 2 THEN jd' = [jd EXCEPT !.pc = "ranked"]
           ELSE IF v.status # "ok" THEN jd' = [jd EXCEPT !.pc = "done", !.status = 500]
           ELSE jd' = [jd EXCEPT !.pc = "scoring", !.all_tech = v.tech, !.all_soft = v.soft]
    /\ UNCHANGED <<impl, csv, df, proc, vocab, rs, fs>>

\* the first loop (nlp_service.py 179-191, app 129-150)
JdBaseScores ==
    /\ jd.pc = "scoring"
    /\ jd' = [jd EXCEPT !.pc = "boost",
                        !.skill_scores = BaseScores(job_desc_lower, all_skills)]
    /\ UNCHANGED <<impl, csv, df, proc, vocab, rs, fs>>

\* the second loop (nlp_service.py 194-202, app 153-178)
JdBoost ==
    /\ jd.pc = "boost"
    /\ jd' = [jd EXCEPT !.pc = "filter",
                        !.skill_scores = BoostLoop(impl, job_desc_lower, jd.skill_scores,
                                                   all_skills)]
    /\ UNCHANGED <<impl, csv, df, proc, vocab, rs, fs>>

\* the third loop and the two sorts (nlp_service.py 204-222, app 181-198);
\* the server answers here, the app goes on to display the lists
JdFilterSort ==
    /\ jd.pc = "filter"
    /\ jd' = [jd EXCEPT
                !.pc = IF impl = "server" THEN "done" ELSE "ranked",
                !.status = IF impl = "server" THEN 200 ELSE 0,
                !.found_tech = SortByScore(Kept(all_skills, jd.skill_scores, jd.threshold,
                                                jd.all_tech, TRUE)),
                !.found_soft = SortByScore(Kept(all_skills, jd.skill_scores, jd.threshold,
                                                jd.all_tech, FALSE))]
    /\ UNCHANGED <<impl, csv, df, proc, vocab, rs, fs>>

\* list[:n]
Truncate(items, n) == SubSeq(items, 1, Min(n, Len(items)))

\* the conditions of the three list comprehensions (app 377-383)
IsMustHave(score) == score >= 650

IsGoodToHave(score) == 450 <= score /\ score < 650

IsNiceToHave(score) == score < 450

\* the s of "s for s, score in items"
SkillsOf(items) == [i \in 1..Len(items) |-> items[i].skill]

\* the three display lists of one category
PriorityBreakdown(items) ==
    [must_have |-> SkillsOf(SelectSeq(items, LAMBDA item : IsMustHave(item.score))),
     good_to_have |-> SkillsOf(SelectSeq(items, LAMBDA item : IsGoodToHave(item.score))),
     nice_to_have |-> SkillsOf(SelectSeq(items, LAMBDA item : IsNiceToHave(item.score)))]

\* ExportPriority with the first cutoff made exclusive
ExportPriorityExclusive(score) ==
    IF score > 650 THEN "MUST HAVE"
    ELSE IF score >= 450 THEN "GOOD TO HAVE" ELSE "NICE TO HAVE"

\* the conditional expression of the export (app 419, 422)
ExportPriority(score) ==
    IF score >= 650 THEN "MUST HAVE"
    ELSE IF score >= 450 THEN "GOOD TO HAVE" ELSE "NICE TO HAVE"

\* round(score, 3): the scores of the model are whole thousandths
Round3(score) == score

\* the rows appended to export_data for one category
ExportRows(items, type) ==
    [i \in 1..Len(items) |->
        [Skill |-> items[i].skill, Type |-> type,
         Relevance |-> Round3(items[i].score), Priority |-> ExportPriority(items[i].score)]]

\* tab2 after extract_mandatory_skills returned: top-N cut (app 316-317) and
\* the priority breakdown (app 377-383)
JdShow ==
    /\ jd.pc = "ranked"
    /\ LET tech == Truncate(jd.found_tech, jd.top_n)
           soft == Truncate(jd.found_soft, jd.top_n)
       IN  jd' = [jd EXCEPT !.pc = "shown",
                            !.mandatory_tech_scored = tech,
                            !.mandatory_soft_scored = soft,
                            !.priority_tech = PriorityBreakdown(tech),
                            !.priority_soft = PriorityBreakdown(soft)]
    /\ UNCHANGED <<impl, csv, df, proc, vocab, rs, fs>>

\* the "Export as CSV" button (app 416-423)
JdExport ==
    /\ jd.pc = "shown"
    /\ jd' = [jd EXCEPT !.pc = "exported",
                        !.export_data = ExportRows(jd.mandatory_tech_scored, "Technical")
                                        \o ExportRows(jd.mandatory_soft_scored, "Soft")]
    /\ UNCHANGED <<impl, csv, df, proc, vocab, rs, fs>>

\* the reference tables of the scorer's runs: the table of the documented
\* example, and one whose soft column repeats the technical skills
JdFiles ==
    { [exists |-> TRUE, columns |-> Columns, rows |->
        << [job_title |-> <<"D", "a", "t", "a">>,
            technical_skills |-> <<"p", "y", "t", "h", "o", "n", ",", " ", "s", "q", "l", ",", " ",
                                   "m", "a", "c", "h", "i", "n", "e", " ",
                                   "l", "e", "a", "r", "n", "i", "n", "g">>,
            soft_skills |-> <<"c", "o", "m", "m", "u", "n", "i", "c", "a", "t", "i", "o", "n">>] >>],
      [exists |-> TRUE, columns |-> Columns, rows |->
        << [job_title |-> <<"D", "e", "v">>,
            technical_skills |-> <<"S", "Q", "L", ",", "p", "y", "t", "h", "o", "n">>,
            soft_skills |-> <<"t", "a", "c", "t", ",", "s", "q", "l", ",",
                              "p", "y", "t", "h", "o", "n">>] >>] }

\* text longer than the context window that holds no skill and no keyword
Filler == [i \in 1..(ContextWindow + 1) |-> "x"]

\* the pieces job descriptions of the model are concatenated from
Fragments ==
    { <<"P", "y", "t", "h", "o", "n">>,
      <<" ", "s", "q", "l", ",", " ", "s", "q", "l">>,
      <<" ", "i", "s", " ", "r", "e", "q", "u", "i", "r", "e", "d", " ">>,
      <<" ", "m", "a", "n", "d", "a", "t", "o", "r", "y">>,
      <<" ", "o", "p", "t", "i", "o", "n", "a", "l", " ">>,
      <<"s", "q", "l">> \o Filler
        \o <<"n", "i", "c", "e", " ", "t", "o", " ", "h", "a", "v", "e", " ", "t", "a", "c", "t">>,
      <<" ", "m", "a", "c", "h", "i", "n", "e", " ">>,
      <<"l", "e", "a", "r", "n", "i", "n", "g">>,
      Filler \o <<"r", "e", "q", "u", "i", "r", "e", "d">>,
      <<" ", " ", " ", " ", " ", " ">> }

MaxFragments == 2

Descriptions == {Concat(f) : f \in UNION {[1..k -> Fragments] : k \in 0..MaxFragments}}

\* thresholds a client of /analyze/jd may send, in thousandths
Thresholds == {-500, 0, 400, 1000, 1500}

\* the slider of tab2: 0.0 to 1.0 in steps of 0.05
SliderThresholds == {t \in Thresholds : 0 <= t /\ t <= 1000 /\ t % 50 = 0}

\* values of the "Show top" input (1 to 50)
TopNs == {1, 10}

InitJD ==
    /\ impl \in Impls
    /\ csv \in JdFiles
    /\ df = Loaded(csv)
    /\ proc = "serving"
    /\ vocab = NoVocab
    /\ \E d \in Descriptions :
         \/ impl = "server" /\ \E t \in Thresholds : jd = JdRequest(d, t, 0)
         \/ impl = "app" /\ \E t \in SliderThresholds, n \in TopNs : jd = JdRequest(d, t, n)
    /\ rs = <<>>
    /\ fs = NoFiles

NextJD == JdStart \/ JdBaseScores \/ JdBoost \/ JdFilterSort \/ JdShow \/ JdExport

SpecJD == InitJD /\ [][NextJD]_vars

(***************************************************************************)
(* Claims about the Importance Scorer and the Priority Classifier (SpecJD) *)
(***************************************************************************)

InUnit(score) == 0 <= score /\ score <= 1000

ScoresInUnit(items) == \A i \in 1..Len(items) : InUnit(items[i].score)

\* C1: every score of the scorer lies in [0,1]: in skill_scores after the
\* base-score loop and after the boost loop, and in both ranked lists returned
\* (and shown), in analyze_jd and in extract_mandatory_skills.
C1_ScoresInUnitInterval ==
    /\ \A skill \in DOMAIN jd.skill_scores : InUnit(jd.skill_scores[skill])
    /\ ScoresInUnit(jd.found_tech)
    /\ ScoresInUnit(jd.found_soft)
    /\ ScoresInUnit(jd.mandatory_tech_scored)
    /\ ScoresInUnit(jd.mandatory_soft_scored)

\* the boost loop has run on a skill whose boosted score exceeded 1 before the
\* re-clamp, and the skill is returned with score 1
C1_Witness ==
    /\ jd.pc \in {"done", "ranked"}
    /\ \E i \in 1..Len(jd.found_tech) :
          LET skill == jd.found_tech[i].skill
              base == BaseScores(job_desc_lower, all_skills)
          IN  /\ jd.found_tech[i].score = 1000
              /\ base[skill] < 1000
              /\ BoostOneUnclamped(impl, job_desc_lower, base, skill)[skill] > 1000

NonWhitespace(s) == Cardinality({i \in 1..Len(s) : ~IsSpace(s[i])})

\* C2: a description of fewer than 10 non-whitespace characters yields two
\* empty ranked lists and the scoring loops never run, at both entry points.
C2_ShortDescriptionShortCircuits ==
    NonWhitespace(jd.job_description) < MinDescription =>
        /\ jd.pc \notin {"scoring", "boost", "filter"}
        /\ DOMAIN jd.skill_scores = {}
        /\ jd.found_tech = <<>>
        /\ jd.found_soft = <<>>

\* C4: a request whose threshold is outside [0,1] is rejected: it never
\* reaches the scoring and filtering steps and is never answered with ranked
\* lists.
C4_ThresholdValidated ==
    ~InUnit(jd.threshold) =>
        /\ jd.pc \notin {"scoring", "boost", "filter", "ranked", "shown", "exported"}
        /\ jd.status # 200

\* the display lists (by name of the export's tier) that hold a given score
DisplayTiers(score) ==
    {tier \in {"MUST HAVE", "GOOD TO HAVE", "NICE TO HAVE"} :
        \/ tier = "MUST HAVE" /\ IsMustHave(score)
        \/ tier = "GOOD TO HAVE" /\ IsGoodToHave(score)
        \/ tier = "NICE TO HAVE" /\ IsNiceToHave(score)}

\* the three display lists of a category split the category's ranked entries
SplitsRanked(priority, items) ==
    /\ Range(priority.must_have) \cap Range(priority.good_to_have) = {}
    /\ Range(priority.must_have) \cap Range(priority.nice_to_have) = {}
    /\ Range(priority.good_to_have) \cap Range(priority.nice_to_have) = {}
    /\ Len(priority.must_have) + Len(priority.good_to_have) + Len(priority.nice_to_have)
         = Len(items)
    /\ Range(priority.must_have) \cup Range(priority.good_to_have)
         \cup Range(priority.nice_to_have) = {items[i].skill : i \in 1..Len(items)}

\* the display list of the row's category that holds the row's skill
DisplayListOf(row) ==
    LET priority == IF row.Type = "Technical" THEN jd.priority_tech ELSE jd.priority_soft
    IN  {tier \in {"MUST HAVE", "GOOD TO HAVE", "NICE TO HAVE"} :
            \/ tier = "MUST HAVE" /\ row.Skill \in Range(priority.must_have)
            \/ tier = "GOOD TO HAVE" /\ row.Skill \in Range(priority.good_to_have)
            \/ tier = "NICE TO HAVE" /\ row.Skill \in Range(priority.nice_to_have)}

\* C10: every score in [0,1] falls in exactly one tier (MUST_HAVE iff
\* score >= 0.65, GOOD_TO_HAVE iff 0.45 <= score < 0.65, NICE_TO_HAVE iff
\* score < 0.45); the three display lists of a category are pairwise disjoint
\* and hold every ranked skill; the tier the export writes is the tier of the
\* display list, for every score and for every exported row.
C10_PriorityPartition ==
    /\ jd.pc = "shown" =>
          \A score \in 0..1000 :
              LET tiers == DisplayTiers(score)
              IN  /\ Cardinality(tiers) = 1
                  /\ ("MUST HAVE" \in tiers) = (score >= 650)
                  /\ ("GOOD TO HAVE" \in tiers) = (450 <= score /\ score < 650)
                  /\ ("NICE TO HAVE" \in tiers) = (score < 450)
                  /\ tiers = {ExportPriority(score)}
    /\ jd.pc \in {"shown", "exported"} =>
          /\ SplitsRanked(jd.priority_tech, jd.mandatory_tech_scored)
          /\ SplitsRanked(jd.priority_soft, jd.mandatory_soft_scored)
    /\ jd.pc = "exported" =>
          \A i \in 1..Len(jd.export_data) :
              DisplayListOf(jd.export_data[i]) = {jd.export_data[i].Priority}

\* an export whose rows carry all three tiers
C10_Witness ==
    /\ jd.pc = "exported"
    /\ {jd.export_data[i].Priority : i \in 1..Len(jd.export_data)}
         = {"MUST HAVE", "GOOD TO HAVE", "NICE TO HAVE"}

\* the score of a skill whose base score was multiplied at most once: by the
\* factor of the first keyword of the table found in the window around the
\* skill's first occurrence, and not at all when the skill does not occur
BoostedOnce(program, text, skill) ==
    LET base == BaseScore(text, skill)
        k == FirstKeyword(Context(text, skill), Keywords(program), 1)
    IN  IF ~Contains(text, Lower(skill)) \/ k = 0 THEN base
        ELSE Min(Times(base, Keywords(program)[k].boost), 1000)

\* C11: once the boost loop has run, the score of every skill of the
\* vocabulary is its base score multiplied at most once (by the factor of the
\* first keyword in table order found in the 50-character window around the
\* skill's first occurrence; a skill absent from the text keeps its base
\* score), also for a skill listed in both the technical and the soft
\* vocabulary.
C11_BoostAtMostOnce ==
    jd.pc \notin {"scoring", "boost"} =>
        \A skill \in DOMAIN jd.skill_scores :
            jd.skill_scores[skill] = BoostedOnce(impl, job_desc_lower, skill)

\* a ranked list in score order, entries of equal score in alphabetical order
RankedOrder(items) ==
    \A i, j \in 1..Len(items) :
        i < j =>
            /\ items[i].score >= items[j].score
            /\ items[i].score = items[j].score => ~StrLess(items[j].skill, items[i].skill)

\* C12: each ranked list the scorer returns (and each list the tab shows after
\* the top-N cut) is ordered by score non-increasing, and two entries of equal
\* score are in the relative order of the sorted (alphabetical) vocabulary.
C12_RankedDescendingStable ==
    /\ RankedOrder(jd.found_tech)
    /\ RankedOrder(jd.found_soft)
    /\ RankedOrder(jd.mandatory_tech_scored)
    /\ RankedOrder(jd.mandatory_soft_scored)

\* C14: no skill appears twice within the technical ranked list or within
\* the soft ranked list (as returned, and as shown after the top-N cut), and
\* once the lists are built every skill of the soft vocabulary whose score
\* passes the filter is in the soft ranked list, also when the skill is in the
\* technical vocabulary too.
C14_RankedListsDistinct ==
    /\ NoDuplicates(SkillsOf(jd.found_tech))
    /\ NoDuplicates(SkillsOf(jd.found_soft))
    /\ NoDuplicates(SkillsOf(jd.mandatory_tech_scored))
    /\ NoDuplicates(SkillsOf(jd.mandatory_soft_scored))
    /\ jd.pc \notin {"scoring", "boost", "filter"} =>
          \A skill \in Range(jd.all_soft) \cap DOMAIN jd.skill_scores :
              2 * jd.skill_scores[skill] >= jd.threshold
                  => skill \in Range(SkillsOf(jd.found_soft))

(***************************************************************************)
(* Resume screening: analyze_resume (server) and tab1 (app).  The          *)
(* similarity score (nlp_service.py 136-146, app 87-90) comes from the     *)
(* embedding model and is left out: the response of the model carries the  *)
(* four skill lists and the recommendation.                                *)
(***************************************************************************)

\* a page of an uploaded document, by what page.extract_text() does with it
TextPage(text) == [kind |-> "text", text |-> text]

NonePage == [kind |-> "none", text |-> <<>>]

RaisingPage == [kind |-> "raises", text |-> <<>>]

\* the loop over pdf.pages: text += page_text + " " for every page that yields
\* text, until a page raises (nothing in the loop catches it)
RECURSIVE PagesText(_)
PagesText(pages) ==
    IF pages = <<>> THEN [text |-> <<>>, raised |-> FALSE]
    ELSE LET page == pages[1]
         IN  IF page.kind = "raises" THEN [text |-> <<>>, raised |-> TRUE]
             ELSE LET rest == PagesText(Tail(pages))
                  IN  IF page.kind = "text" /\ page.text # <<>>
                      THEN [text |-> page.text \o <<" ">> \o rest.text,
                            raised |-> rest.raised]
                      ELSE rest

\* extract_text_from_pdf of the server on the file at a path of directory d:
\* the try spans open() and the whole loop, so whatever was read before an
\* exception is returned
ExtractFromPath(d, path) ==
    IF path \notin DOMAIN d THEN <<>>
    ELSE Strip(Lower(PagesText(d[path]).text))

\* extract_text_from_pdf of the app on the uploaded file: no try
ExtractFromUpload(pdf) ==
    LET got == PagesText(pdf)
    IN  [raised |-> got.raised, text |-> Strip(Lower(got.text))]

\* sorted(set(role_skills) - set(found))
Missing(role_skills, found) == Sorted(Range(role_skills) \ Range(found))

Recommendation(missing_tech, missing_soft) ==
    IF missing_tech # <<>> \/ missing_soft # <<>> THEN "Upskill" ELSE "Matches"

ResumeRequest(has_file, filename, pdf, job_role) ==
    [pc |-> "received", has_file |-> has_file, filename |-> filename, pdf |-> pdf,
     job_role |-> job_role, resume_text |-> <<>>, outcome |-> "",
     tech_skills |-> <<>>, soft_skills |-> <<>>,
     techSkillsFound |-> <<>>, softSkillsFound |-> <<>>,
     missingTechSkills |-> <<>>, missingSoftSkills |-> <<>>, recommendation |-> ""]

\* what lines 125-159 (app 226-265) answer for a resume text and a role
Analysis(program, t, resume_text, job_role) ==
    LET job == get_job_skills(program, t, job_role)
        resume_tech == extract_skills_from_text(resume_text, job.tech)
        resume_soft == extract_skills_from_text(resume_text, job.soft)
        missing_tech == Missing(job.tech, resume_tech)
        missing_soft == Missing(job.soft, resume_soft)
        none == [outcome |-> "", tech_skills |-> <<>>, soft_skills |-> <<>>,
                 techSkillsFound |-> <<>>, softSkillsFound |-> <<>>,
                 missingTechSkills |-> <<>>, missingSoftSkills |-> <<>>,
                 recommendation |-> ""]
    IN  IF job.status # "ok" THEN [none EXCEPT !.outcome = "Error"]
        ELSE IF job.job_text = <<>> THEN [none EXCEPT !.outcome = "RoleNotFound"]
        ELSE [outcome |-> "MatchResult", tech_skills |-> job.tech, soft_skills |-> job.soft,
              techSkillsFound |-> resume_tech, softSkillsFound |-> resume_soft,
              missingTechSkills |-> missing_tech, missingSoftSkills |-> missing_soft,
              recommendation |-> Recommendation(missing_tech, missing_soft)]

Finish(req, answer) ==
    [req EXCEPT !.pc = "done", !.outcome = answer.outcome,
                !.tech_skills = answer.tech_skills, !.soft_skills = answer.soft_skills,
                !.techSkillsFound = answer.techSkillsFound,
                !.softSkillsFound = answer.softSkillsFound,
                !.missingTechSkills = answer.missingTechSkills,
                !.missingSoftSkills = answer.missingSoftSkills,
                !.recommendation = answer.recommendation]

\* the checks on entry (nlp_service.py 106-113; app 220)
RsValidate(r) ==
    /\ proc = "serving"
    /\ rs[r].pc = "received"
    /\ rs' = [rs EXCEPT ![r] =
                IF ~rs[r].has_file \/ rs[r].job_role = <<>>
                THEN [@ EXCEPT !.pc = "done", !.outcome = "BadRequest"]
                ELSE [@ EXCEPT !.pc = IF impl = "server" THEN "save" ELSE "extract"]]
    /\ UNCHANGED <<impl, csv, df, proc, vocab, jd, fs>>

\* file.save(f"/tmp/{file.filename}")  (nlp_service.py 116-117)
RsSave(r) ==
    /\ rs[r].pc = "save"
    /\ fs' = [f \in DOMAIN fs \cup {rs[r].filename} |->
                IF f = rs[r].filename THEN rs[r].pdf ELSE fs[f]]
    /\ rs' = [rs EXCEPT ![r].pc = "extract"]
    /\ UNCHANGED <<impl, csv, df, proc, vocab, jd>>

\* resume_text = extract_text_from_pdf(...)  (nlp_service.py 120; app 224)
RsExtract(r) ==
    /\ rs[r].pc = "extract"
    /\ IF impl = "server"
       THEN rs' = [rs EXCEPT ![r].pc = "exists",
                             ![r].resume_text = ExtractFromPath(fs, rs[r].filename)]
       ELSE LET got == ExtractFromUpload(rs[r].pdf)
            IN  rs' = [rs EXCEPT ![r] =
                         IF got.raised
                         THEN [@ EXCEPT !.pc = "done", !.outcome = "Error"]
                         ELSE [@ EXCEPT !.pc = "resolve", !.resume_text = got.text]]
    /\ UNCHANGED <<impl, csv, df, proc, vocab, jd, fs>>

\* finally: if os.path.exists(temp_path)  (nlp_service.py 122)
RsExists(r) ==
    /\ rs[r].pc = "exists"
    /\ rs' = [rs EXCEPT ![r].pc = IF rs[r].filename \in DOMAIN fs THEN "remove" ELSE "resolve"]
    /\ UNCHANGED <<impl, csv, df, proc, vocab, jd, fs>>

\* os.remove(temp_path)  (nlp_service.py 123); on a path that is gone it
\* raises, and the handler's except answers 500
RsRemove(r) ==
    /\ rs[r].pc = "remove"
    /\ IF rs[r].filename \in DOMAIN fs
       THEN /\ fs' = [f \in DOMAIN fs \ {rs[r].filename} |-> fs[f]]
            /\ rs' = [rs EXCEPT ![r].pc = "resolve"]
       ELSE /\ fs' = fs
            /\ rs' = [rs EXCEPT ![r].pc = "done", ![r].outcome = "Error"]
    /\ UNCHANGED <<impl, csv, df, proc, vocab, jd>>

\* the rest of the handler  (nlp_service.py 125-163; app 226-265)
RsAnalyze(r) ==
    /\ rs[r].pc = "resolve"
    /\ rs' = [rs EXCEPT ![r] =
                Finish(@, Analysis(impl, df, rs[r].resume_text, rs[r].job_role))]
    /\ UNCHANGED <<impl, csv, df, proc, vocab, jd, fs>>

\* the reference tables of the screening runs
ResumeFiles ==
    { [exists |-> TRUE, columns |-> Columns, rows |->
        << [job_title |-> <<"Q", "A">>,
            technical_skills |-> <<"s", "q", "l", ",", " ", "G", "o">>,
            soft_skills |-> <<"g", "r", "i", "t">>],
           [job_title |-> <<"Q", "A", " ", "L", "e", "a", "d">>,
            technical_skills |-> <<"g", "o", ",", "c", ",">>,
            soft_skills |-> <<"t", "a", "c", "t">>],
           [job_title |-> <<"D", "e", "v">>,
            technical_skills |-> <<"r", "u", "s", "t">>,
            soft_skills |-> <<"g", "r", "i", "t">>],
           [job_title |-> <<"O", "p", "s">>,
            technical_skills |-> <<" ", ",">>,
            soft_skills |-> <<" ">>] >>],
      [exists |-> TRUE, columns |-> Columns, rows |->
        << [job_title |-> NaN,
            technical_skills |-> <<"g", "o">>,
            soft_skills |-> <<"g", "r", "i", "t">>],
           [job_title |-> <<"D", "e", "v">>,
            technical_skills |-> <<"s", "q", "l">>,
            soft_skills |-> NaN] >>] }

\* the role names requests carry
Roles ==
    { <<>>,
      <<"q", "a">>,
      <<" ", "Q", "A">>,
      <<"D", "e", "v">>,
      <<"o", "p", "s">>,
      <<"c", "e", "o">> }

\* the pages uploaded documents are made of
Pages ==
    { TextPage(<<"S", "Q", "L", " ", "a", "n", "d", " ", "R", "u", "s", "t">>),
      TextPage(<<" ", "g", "o", ",", " ", "t", "a", "c", "t">>),
      NonePage,
      RaisingPage }

MaxPages == 3

Documents == UNION {[1..k -> Pages] : k \in 1..MaxPages}

InitResume ==
    /\ impl \in Impls
    /\ csv \in ResumeFiles
    /\ df = Loaded(csv)
    /\ proc = "serving"
    /\ vocab = NoVocab
    /\ jd = JdIdle
    /\ \E has_file \in BOOLEAN, pdf \in Documents, job_role \in Roles :
          rs = <<ResumeRequest(has_file, "cv.pdf", pdf, job_role)>>
    /\ fs = NoFiles

NextResume ==
    \/ \E r \in DOMAIN rs : RsValidate(r)
    \/ \E r \in DOMAIN rs : RsSave(r)
    \/ \E r \in DOMAIN rs : RsExtract(r)
    \/ \E r \in DOMAIN rs : RsExists(r)
    \/ \E r \in DOMAIN rs : RsRemove(r)
    \/ \E r \in DOMAIN rs : RsAnalyze(r)

SpecResume == InitResume /\ [][NextResume]_vars

\* requests the server handles at once (app.run serves each in its own thread)
NumRequests == 2

Filenames == {"cv.pdf", "resume.pdf"}

ConcurrentDocuments ==
    { <<TextPage(<<"S", "Q", "L", " ", "a", "n", "d", " ", "R", "u", "s", "t">>)>>,
      <<TextPage(<<" ", "g", "o", ",", " ", "t", "a", "c", "t">>)>> }

ConcurrentRoles == {<<"q", "a">>, <<"D", "e", "v">>}

ConcurrentFile == CHOOSE f \in ResumeFiles : f.rows[1].job_title # NaN

InitConcurrent ==
    /\ impl = "server"
    /\ csv = ConcurrentFile
    /\ df = Loaded(csv)
    /\ proc = "serving"
    /\ vocab = NoVocab
    /\ jd = JdIdle
    /\ rs \in [1..NumRequests ->
                {ResumeRequest(TRUE, f, pdf, job_role) :
                    f \in Filenames, pdf \in ConcurrentDocuments, job_role \in ConcurrentRoles}]
    /\ fs = NoFiles

SpecConcurrent == InitConcurrent /\ [][NextResume]_vars

(***************************************************************************)
(* Claims about resume screening (SpecResume, SpecConcurrent)              *)
(***************************************************************************)

\* the role name as the Role Skill Resolver is said to normalise it
NormalizedRole(job_role) == Strip(Lower(job_role))

\* some reference row's title contains the normalised role name
RoleMatches(t, job_role) ==
    \E i \in 1..Len(t.rows) :
        /\ t.rows[i].job_title # NaN
        /\ Contains(t.rows[i].job_title, NormalizedRole(job_role))

\* the request passed the entry checks, its document has no failing page and
\* every row of the table has a title
Screened(req) ==
    /\ req.pc = "done"
    /\ req.outcome # "BadRequest"
    /\ ~PagesText(req.pdf).raised
    /\ \A i \in 1..Len(df.rows) : df.rows[i].job_title # NaN

\* C3: screening ends in RoleNotFound exactly when no reference row's title
\* contains the normalised (lower-cased, trimmed) role name; when a row
\* matches, the outcome is a MatchResult; the resolver does not raise.
C3_RoleNotFoundIffNoRow ==
    \A r \in DOMAIN rs :
        Screened(rs[r]) =>
            /\ (rs[r].outcome = "RoleNotFound") = ~RoleMatches(df, rs[r].job_role)
            /\ RoleMatches(df, rs[r].job_role) => rs[r].outcome = "MatchResult"
            /\ get_job_skills(impl, df, rs[r].job_role).status = "ok"

\* found and missing split the role's skill set
SplitsRole(role_skills, found, missing) ==
    /\ Range(found) \subseteq Range(role_skills)
    /\ Range(missing) = Range(role_skills) \ Range(found)
    /\ Range(found) \cap Range(missing) = {}
    /\ Range(found) \cup Range(missing) = Range(role_skills)

\* C5: in every MatchResult, per category, missing is the role's resolved
\* skill set minus found, found is a subset of the role's skill set, found and
\* missing are disjoint and together are the role's skill set.
C5_MissingAgainstRoleSkills ==
    \A r \in DOMAIN rs :
        rs[r].outcome = "MatchResult" =>
            LET job == get_job_skills(impl, df, rs[r].job_role)
            IN  /\ SplitsRole(job.tech, rs[r].techSkillsFound, rs[r].missingTechSkills)
                /\ SplitsRole(job.soft, rs[r].softSkillsFound, rs[r].missingSoftSkills)

\* a MatchResult with technical skills found and missing, for a document that
\* also names a technical skill of the vocabulary outside the role's set
C5_Witness ==
    \E r \in DOMAIN rs :
        /\ rs[r].outcome = "MatchResult"
        /\ rs[r].techSkillsFound # <<>>
        /\ rs[r].missingTechSkills # <<>>
        /\ \E skill \in Range(AllSkillsOf(df, "technical_skills")) :
              /\ skill \notin Range(rs[r].tech_skills)
              /\ Contains(rs[r].resume_text, skill)

\* the request's handler has called get_job_skills: it passed the entry
\* checks and text extraction did not end it
Resolved(req) ==
    /\ req.pc = "done"
    /\ req.outcome # "BadRequest"
    /\ ~(impl = "app" /\ PagesText(req.pdf).raised)

\* no leading, trailing or doubled space
SingleSpaced(text) == Strip(text) = text /\ ~Contains(text, <<" ", " ">>)

\* C13: for a table whose rows all have a title and a role that matches at
\* least one row, the resolver's technical and soft lists follow the
\* Vocabulary Builder's token rule (ascending, no duplicate, no empty string,
\* tokens lower-cased and trimmed), so the reference text has no leading,
\* trailing or doubled space; the result is the same for every order of the
\* rows; and the two implementations of get_job_skills return the same result.
C13_ResolverFollowsTokenRule ==
    \A r \in DOMAIN rs :
        ( /\ Resolved(rs[r])
          /\ \A i \in 1..Len(df.rows) : df.rows[i].job_title # NaN
          /\ FilteredRows(df, Lower(rs[r].job_role)) # {} ) =>
            LET job == get_job_skills(impl, df, rs[r].job_role)
            IN  /\ job.status = "ok"
                /\ WellFormedVocabulary(job.tech)
                /\ WellFormedVocabulary(job.soft)
                /\ SingleSpaced(job.job_text)
                /\ \A p \in RowOrders(Len(df.rows)) :
                      get_job_skills(impl, Reordered(df, p), rs[r].job_role) = job
                /\ get_job_skills("server", df, rs[r].job_role)
                      = get_job_skills("app", df, rs[r].job_role)

\* the text of a document when a page that raises is skipped and the loop
\* goes on with the next page
RECURSIVE PagesTextSkipping(_)
PagesTextSkipping(pages) ==
    IF pages = <<>> THEN [text |-> <<>>, raised |-> FALSE]
    ELSE LET rest == PagesTextSkipping(Tail(pages))
             page == pages[1]
         IN  IF page.kind = "text" /\ page.text # <<>>
             THEN [text |-> page.text \o <<" ">> \o rest.text, raised |-> rest.raised]
             ELSE rest

\* C7: when extraction of a page fails, the page adds nothing, every other
\* page (before and after it) still adds its text, and the request does not
\* fail because of it.
C7_FailingPageSkipped ==
    \A r \in DOMAIN rs :
        rs[r].pc \in {"exists", "remove", "resolve", "done"} /\ rs[r].outcome # "BadRequest" =>
            /\ rs[r].outcome = "Error" =>
                  get_job_skills(impl, df, rs[r].job_role).status # "ok"
            /\ rs[r].outcome # "Error" =>
                  rs[r].resume_text = Strip(Lower(PagesTextSkipping(rs[r].pdf).text))

\* the state a request ends in when it is the only request the server handles
Alone(req) ==
    LET d == [f \in {req.filename} |-> req.pdf]
        resume_text == ExtractFromPath(d, req.filename)
    IN  IF ~req.has_file \/ req.job_role = <<>>
        THEN [req EXCEPT !.pc = "done", !.outcome = "BadRequest"]
        ELSE [Finish(req, Analysis("server", df, resume_text, req.job_role))
                EXCEPT !.resume_text = resume_text]

\* C8: under any interleaving, each request's result is the result it would
\* get running alone on its own inputs.
C8_RequestsIsolated ==
    \A r \in DOMAIN rs : rs[r].pc = "done" => rs[r] = Alone(rs[r])

====
